---- MODULE Spec2Model ----
(***************************************************************************)
(* NanoSutra Core agent (src/agent.py): the risk classifier evaluate_risk, *)
(* the concurrent executor execute_actions run on a per-request asyncio    *)
(* event loop (run_async_task), the coordinator process_task and the two   *)
(* Flask routes that call it (evaluate_task, test_task).                   *)
(*                                                                         *)
(* A Python str is modelled as a sequence of one-character strings, so     *)
(* that json.dumps, str.lower and the substring test `in` are computed.    *)
(***************************************************************************)
EXTENDS Integers, Sequences, FiniteSets, TLC

VARIABLES req, pc, task, risk_level, main, child, child_result, outer,
          finished, ready, timers, ntodo, stopping, report, response

vars ==
    <<req, pc, task, risk_level, main, child, child_result, outer,
      finished, ready, timers, ntodo, stopping, report, response>>

(***************************************************************************)
(* String literals of the source.                                          *)
(***************************************************************************)
kw_delete ==
    <<"d","e","l","e","t","e">>
kw_payment ==
    <<"p","a","y","m","e","n","t">>
kw_charge ==
    <<"c","h","a","r","g","e">>
kw_refund ==
    <<"r","e","f","u","n","d">>
kw_cancel_subscription ==
    <<"c","a","n","c","e","l","_","s","u","b","s","c","r","i","p","t","i","o","n">>
kw_update ==
    <<"u","p","d","a","t","e">>
kw_modify ==
    <<"m","o","d","i","f","y">>
kw_send_email ==
    <<"s","e","n","d","_","e","m","a","i","l">>
kw_post ==
    <<"p","o","s","t">>
s_unknown ==
    <<"u","n","k","n","o","w","n">>
s_Unnamed_Task ==
    <<"U","n","n","a","m","e","d"," ","T","a","s","k">>
s_Executed ==
    <<"E","x","e","c","u","t","e","d"," ">>
s_action ==
    <<" ","a","c","t","i","o","n">>
s_name ==
    <<"n","a","m","e">>
s_description ==
    <<"d","e","s","c","r","i","p","t","i","o","n">>
s_actions ==
    <<"a","c","t","i","o","n","s">>
s_type ==
    <<"t","y","p","e">>
s_data ==
    <<"d","a","t","a">>
s_log ==
    <<"l","o","g">>
sup_name ==
    <<"S","u","p","e","r","v","i","s","i","o","n"," ","T","a","s","k"," ","-"," ","H","i","g","h"," ","O","v","e","r","s","i","g","h","t"," ","R","e","q","u","i","r","e","d">>
sup_desc ==
    <<"C","r","i","t","i","c","a","l"," ","o","p","e","r","a","t","i","o","n"," ","r","e","q","u","i","r","i","n","g"," ","h","u","m","a","n"," ","a","p","p","r","o","v","a","l">>
sup_t1 ==
    <<"v","e","r","i","f","y","_","i","d","e","n","t","i","t","y">>
sup_d1 ==
    <<"u","s","e","r","_","1","2","3">>
sup_t2 ==
    <<"c","h","e","c","k","_","p","e","r","m","i","s","s","i","o","n","s">>
sup_d2 ==
    <<"a","d","m","i","n","_","l","e","v","e","l">>
sup_t3 ==
    <<"l","o","g","_","a","c","t","i","o","n">>
sup_d3 ==
    <<"s","u","p","e","r","v","i","s","i","o","n","_","c","h","e","c","k">>
std_name ==
    <<"S","t","a","n","d","a","r","d"," ","T","a","s","k"," ","-"," ","N","o","r","m","a","l"," ","O","p","e","r","a","t","i","o","n","s">>
std_desc ==
    <<"R","e","g","u","l","a","r"," ","t","a","s","k"," ","w","i","t","h"," ","m","o","d","e","r","a","t","e"," ","c","o","m","p","l","e","x","i","t","y">>
std_t1 ==
    <<"f","e","t","c","h","_","d","a","t","a">>
std_d1 ==
    <<"r","e","c","o","r","d","s">>
std_d2 ==
    <<"s","t","a","t","u","s","_","f","i","e","l","d">>
std_t3 ==
    <<"n","o","t","i","f","y">>
std_d3 ==
    <<"t","e","a","m","_","c","h","a","n","n","e","l">>
grn_name ==
    <<"G","r","e","e","n"," ","R","i","s","k"," ","T","a","s","k"," ","-"," ","S","a","f","e"," ","O","p","e","r","a","t","i","o","n","s">>
grn_desc ==
    <<"L","o","w","-","r","i","s","k"," ","t","a","s","k"," ","w","i","t","h"," ","w","e","l","l","-","t","e","s","t","e","d"," ","a","c","t","i","o","n","s">>
grn_t1 ==
    <<"r","e","a","d","_","d","a","t","a">>
grn_d1 ==
    <<"u","s","e","r","_","p","r","o","f","i","l","e">>
grn_d2 ==
    <<"a","c","c","e","s","s","_","t","i","m","e">>
red_name ==
    <<"R","e","d"," ","R","i","s","k"," ","T","a","s","k"," ","-"," ","H","i","g","h","-","R","i","s","k"," ","O","p","e","r","a","t","i","o","n","s">>
red_desc ==
    <<"D","a","n","g","e","r","o","u","s"," ","t","a","s","k"," ","r","e","q","u","i","r","i","n","g"," ","e","x","t","r","e","m","e"," ","c","a","u","t","i","o","n">>
red_d1 ==
    <<"u","s","e","r","_","a","c","c","o","u","n","t">>
red_d2 ==
    <<"p","a","y","m","e","n","t","_","$","5","0","0">>
red_d3 ==
    <<"t","r","a","n","s","a","c","t","i","o","n","_","x","y","z">>
red_d4 ==
    <<"p","r","e","m","i","u","m","_","p","l","a","n">>

(***************************************************************************)
(* Decoded JSON values.  An optional dict entry is [has, s]; an element of *)
(* 'actions' is a dict with optional 'type' and 'data', or a JSON string.  *)
(***************************************************************************)
Absent ==
    [has |-> FALSE, s |-> <<>>]

Str(s) ==
    [has |-> TRUE, s |-> s]

ActionDict(type, data) ==
    [is_dict |-> TRUE, type |-> type, data |-> data, text |-> <<>>]

ActionStr(s) ==
    [is_dict |-> FALSE, type |-> Absent, data |-> Absent, text |-> s]

Task(name, description, has_actions, actions) ==
    [name |-> name, description |-> description,
     has_actions |-> has_actions, actions |-> actions]

EmptyTask ==
    Task(Absent, Absent, FALSE, <<>>)

(***************************************************************************)
(* str.lower() on ASCII text.                                              *)
(***************************************************************************)
LowerOf ==
    [A |-> "a", B |-> "b", C |-> "c", D |-> "d", E |-> "e", F |-> "f", G |-> "g",
     H |-> "h", I |-> "i", J |-> "j", K |-> "k", L |-> "l", M |-> "m", N |-> "n",
     O |-> "o", P |-> "p", Q |-> "q", R |-> "r", S |-> "s", T |-> "t", U |-> "u",
     V |-> "v", W |-> "w", X |-> "x", Y |-> "y", Z |-> "z"]

LowerChar(c) ==
    IF c \in DOMAIN LowerOf THEN LowerOf[c] ELSE c

Lower(s) ==
    [i \in 1..Len(s) |-> LowerChar(s[i])]

(***************************************************************************)
(* json.dumps with its default separators ', ' and ': '; a double quote    *)
(* and a backslash inside a string are escaped with a backslash.           *)
(***************************************************************************)
RECURSIVE Escape(_)
Escape(s) ==
    IF s = <<>> THEN <<>>
    ELSE (IF Head(s) \in {"\"", "\\"} THEN <<"\\", Head(s)>> ELSE <<Head(s)>>)
         \o Escape(Tail(s))

DumpsStr(s) ==
    <<"\"">> \o Escape(s) \o <<"\"">>

RECURSIVE Join(_)
Join(parts) ==
    IF parts = <<>> THEN <<>>
    ELSE IF Len(parts) = 1 THEN parts[1]
    ELSE parts[1] \o <<",", " ">> \o Join(Tail(parts))

Member(key, dumped) ==
    DumpsStr(key) \o <<":", " ">> \o dumped

OptMember(key, opt) ==
    IF opt.has THEN <<Member(key, DumpsStr(opt.s))>> ELSE <<>>

DumpsAction(a) ==
    IF a.is_dict
    THEN <<"{">> \o Join(OptMember(s_type, a.type) \o OptMember(s_data, a.data))
         \o <<"}">>
    ELSE DumpsStr(a.text)

DumpsList(actions) ==
    <<"[">> \o Join([i \in 1..Len(actions) |-> DumpsAction(actions[i])]) \o <<"]">>

Dumps(t) ==
    <<"{">>
    \o Join(OptMember(s_name, t.name) \o OptMember(s_description, t.description)
            \o (IF t.has_actions
                THEN <<Member(s_actions, DumpsList(t.actions))>> ELSE <<>>))
    \o <<"}">>

\* Python's `keyword in text`.
Contains(keyword, text) ==
    \E i \in 1..(Len(text) - Len(keyword) + 1) :
        \A k \in 1..Len(keyword) : text[i + k - 1] = keyword[k]

\* Python's text.count(keyword), for keywords that cannot overlap themselves.
Occurrences(keyword, text) ==
    Cardinality({i \in 1..(Len(text) - Len(keyword) + 1) :
                    \A k \in 1..Len(keyword) : text[i + k - 1] = keyword[k]})

(***************************************************************************)
(* NanoSutraCoreAgent.evaluate_risk                                        *)
(***************************************************************************)
high_risk_keywords ==
    <<kw_delete, kw_payment, kw_charge, kw_refund, kw_cancel_subscription>>

medium_risk_keywords ==
    <<kw_update, kw_modify, kw_send_email, kw_post>>

RiskTiers ==
    {"green", "yellow", "red"}

\* Faulty variant: the points once per occurrence (text.count).
KeywordPointsPerOccurrence(keyword, task_str, points) ==
    points * Occurrences(keyword, task_str)

\* What one keyword adds to risk_score: its points, once, when it occurs.
KeywordPoints(keyword, task_str, points) ==
    IF Contains(keyword, task_str) THEN points ELSE 0

\* The `for keyword in ...: if keyword in task_str: risk_score += points` loop.
RECURSIVE KeywordScore(_, _, _)
KeywordScore(keywords, task_str, points) ==
    IF keywords = <<>> THEN 0
    ELSE KeywordPoints(Head(keywords), task_str, points)
         + KeywordScore(Tail(keywords), task_str, points)

\* len(task.get('actions', []))
NumActions(t) ==
    IF t.has_actions THEN Len(t.actions) ELSE 0

\* Faulty variant: the lower threshold off by one.
ActionCountPointsOffByOne(num_actions) ==
    IF num_actions > 5 THEN 5
    ELSE IF num_actions > 4 THEN 2
    ELSE 0

\* The `if num_actions > 5 ... elif num_actions > 3` ladder.
ActionCountPoints(num_actions) ==
    IF num_actions > 5 THEN 5
    ELSE IF num_actions > 3 THEN 2
    ELSE 0

risk_score(t) ==
    LET task_str == Lower(Dumps(t))
    IN  KeywordScore(high_risk_keywords, task_str, 10)
        + KeywordScore(medium_risk_keywords, task_str, 3)
        + ActionCountPoints(NumActions(t))

\* Faulty variant: strict comparisons.
TierOfScoreStrict(score) ==
    IF score > 10 THEN "red"
    ELSE IF score > 5 THEN "yellow"
    ELSE "green"

\* `if risk_score >= 10 ... elif risk_score >= 5 ... else`.
TierOfScore(score) ==
    IF score >= 10 THEN "red"
    ELSE IF score >= 5 THEN "yellow"
    ELSE "green"

evaluate_risk(t) ==
    TierOfScore(risk_score(t))

(***************************************************************************)
(* Results and reports.                                                    *)
(***************************************************************************)
\* task.get('actions', [])
Actions(t) ==
    IF t.has_actions THEN t.actions ELSE <<>>

\* action.get('type', 'unknown')
ActionType(a) ==
    IF a.type.has THEN a.type.s ELSE s_unknown

\* Faulty variant: a red task's actions are withheld.
ActionsGatedByRisk(t, risk) ==
    IF risk = "red" THEN <<>> ELSE Actions(t)

\* process_task hands every action of the task to execute_actions, whatever
\* the risk level.
ActionsToExecute(t, risk) ==
    Actions(t)

\* The dict execute_single_action returns.
ActionResult(a) ==
    [action |-> ActionType(a), status |-> "success",
     result |-> s_Executed \o ActionType(a) \o s_action]

NoResult ==
    [action |-> <<>>, status |-> "none", result |-> <<>>]

\* action.get raises AttributeError when the element is not a dict.
Raises(a) ==
    ~a.is_dict

\* task.get('name', 'Unnamed Task')
TaskName(t) ==
    IF t.name.has THEN t.name.s ELSE s_Unnamed_Task

\* The dict process_task returns.
Report(t, risk, results) ==
    [task_name |-> TaskName(t), risk_level |-> risk,
     actions_executed |-> Len(Actions(t)), results |-> results,
     status |-> "completed"]

NoReport ==
    [task_name |-> <<>>, risk_level |-> "none", actions_executed |-> 0,
     results |-> <<>>, status |-> "none"]

NoResponse ==
    [code |-> 0, status |-> "none", report |-> NoReport]

(***************************************************************************)
(* The canned tasks of test_task.                                          *)
(***************************************************************************)
test_tasks ==
    [risk_type \in {"supervision", "standard", "green", "red"} |->
        CASE risk_type = "supervision" ->
                Task(Str(sup_name), Str(sup_desc), TRUE,
                     <<ActionDict(Str(sup_t1), Str(sup_d1)),
                       ActionDict(Str(sup_t2), Str(sup_d2)),
                       ActionDict(Str(sup_t3), Str(sup_d3))>>)
          [] risk_type = "standard" ->
                Task(Str(std_name), Str(std_desc), TRUE,
                     <<ActionDict(Str(std_t1), Str(std_d1)),
                       ActionDict(Str(kw_update), Str(std_d2)),
                       ActionDict(Str(std_t3), Str(std_d3))>>)
          [] risk_type = "green" ->
                Task(Str(grn_name), Str(grn_desc), TRUE,
                     <<ActionDict(Str(grn_t1), Str(grn_d1)),
                       ActionDict(Str(s_log), Str(grn_d2))>>)
          [] risk_type = "red" ->
                Task(Str(red_name), Str(red_desc), TRUE,
                     <<ActionDict(Str(kw_delete), Str(red_d1)),
                       ActionDict(Str(kw_charge), Str(red_d2)),
                       ActionDict(Str(kw_refund), Str(red_d3)),
                       ActionDict(Str(kw_cancel_subscription), Str(red_d4))>>)]

(***************************************************************************)
(* Bounds and the inputs drawn within them.                                *)
(***************************************************************************)
MaxActions ==
    3

MaxRiskActions ==
    6

\* Sample field values: plain text, keywords in other cases, several
\* keywords in one field, a keyword inside a longer word, and a keyword
\* broken by a double quote (which json.dumps escapes).
s_x ==
    <<"x">>

s_Update ==
    <<"U","p","d","a","t","e">>

s_Refund ==
    <<"R","e","f","u","n","d">>

s_modify_post ==
    <<"m","o","d","i","f","y"," ","p","o","s","t">>

s_dequote_compost ==
    <<"d","e","\"","l","e","t","e"," ","c","o","m","p","o","s","t">>

s_Send_Email ==
    <<"S","e","n","d","_","E","m","a","i","l">>

s_charges ==
    <<"C","h","a","r","g","e"," ","c","a","n","c","e","l","_","s","u","b","s","c","r","i","p","t","i","o","n"," ","p","a","y","m","e","n","t">>

SeqsUpTo(S, n) ==
    UNION {[1..k -> S] : k \in 0..n}

\* name/description pairs posted to /api/evaluate.
ExecFields ==
    {<<Absent, Absent>>, <<Str(s_Refund), Absent>>, <<Str(s_modify_post), Absent>>}

ExecActions ==
    {ActionDict(Str(s_log), Str(s_x)), ActionDict(Absent, Absent), ActionStr(s_x)}

ExecTasks ==
    {Task(f[1], f[2], TRUE, a) : f \in ExecFields, a \in SeqsUpTo(ExecActions, MaxActions)}
    \cup {Task(f[1], f[2], FALSE, <<>>) : f \in ExecFields}

Requests ==
    {[route |-> "evaluate", risk_type |-> "", task_data |-> t] : t \in ExecTasks}
    \cup {[route |-> "test", risk_type |-> r, task_data |-> EmptyTask] :
            r \in {"supervision", "standard", "green", "red", "yellow"}}

\* Tasks handed to evaluate_risk alone.
RiskFields ==
    {<<Absent, Absent>>, <<Str(s_Refund), Absent>>, <<Str(s_modify_post), Absent>>,
     <<Absent, Str(s_dequote_compost)>>, <<Str(s_Send_Email), Absent>>,
     <<Str(s_modify_post), Str(s_charges)>>}

RiskActions ==
    {ActionDict(Str(s_log), Str(s_x)), ActionDict(Str(kw_update), Str(s_Update)),
     ActionDict(Str(kw_delete), Absent)}

RiskTasks ==
    {Task(f[1], f[2], TRUE, a) : f \in RiskFields, a \in SeqsUpTo(RiskActions, MaxRiskActions)}
    \cup {Task(f[1], f[2], FALSE, <<>>) : f \in RiskFields}

(***************************************************************************)
(* The asyncio event loop run_async_task creates for one request.          *)
(* ready is loop._ready (FIFO of callbacks), timers the scheduled          *)
(* call_later handles of the children's sleeps, ntodo what is left of the  *)
(* batch of callbacks the current _run_once iteration runs.                *)
(***************************************************************************)
Callback(k, i) ==
    [k |-> k, i |-> i]

\* loop.call_soon
CallSoon(q, cbs) ==
    q \o cbs

Perms(S) ==
    {f \in [1..Cardinality(S) -> S] : \A x \in S : \E i \in DOMAIN f : f[i] = x}

\* Faulty variant: only the first action is started.
SequentialSchedule(n) ==
    <<Callback("step", 1)>>

\* asyncio.gather wraps every coroutine in a Task: each first step is scheduled.
GatherSchedule(n) ==
    [i \in 1..n |-> Callback("step", i)]

\* Faulty variant: the results in the order the children finished.
CompletionOrderResults(results, order) ==
    [k \in 1..Len(order) |-> results[order[k]]]

\* gather's outer future gets the children's results in the children's
\* order, whatever the order they finished in.
GatherResults(results, order) ==
    results

PendingOuter ==
    [state |-> "pending", results |-> <<>>]

Quiet ==
    /\ task = EmptyTask
    /\ risk_level = "none"
    /\ main = "none"
    /\ child = <<>>
    /\ child_result = <<>>
    /\ outer = [state |-> "none", results |-> <<>>]
    /\ finished = <<>>
    /\ ready = <<>>
    /\ timers = {}
    /\ ntodo = 0
    /\ stopping = FALSE
    /\ report = NoReport
    /\ response = NoResponse

Init ==
    /\ req \in Requests
    /\ pc = "request"
    /\ Quiet

\* run_async_task up to run_until_complete's run_forever: the coroutine
\* process_task(t) becomes the main task, its first step is scheduled.
run_async_task(t) ==
    /\ task' = t
    /\ main' = "created"
    /\ ready' = CallSoon(ready, <<Callback("step", 0)>>)
    /\ pc' = "loop"
    /\ UNCHANGED <<req, risk_level, child, child_result, outer, finished,
                   timers, ntodo, stopping, report, response>>

BadRequest ==
    /\ response' = [code |-> 400, status |-> "none", report |-> NoReport]
    /\ pc' = "responded"
    /\ UNCHANGED <<req, task, risk_level, main, child, child_result, outer,
                   finished, ready, timers, ntodo, stopping, report>>

\* `not task_data`: an empty dict is falsy.
Falsy(t) ==
    ~t.name.has /\ ~t.description.has /\ ~t.has_actions

evaluate_task ==
    /\ pc = "request"
    /\ req.route = "evaluate"
    /\ IF Falsy(req.task_data) THEN BadRequest ELSE run_async_task(req.task_data)

test_task ==
    /\ pc = "request"
    /\ req.route = "test"
    /\ IF req.risk_type \in DOMAIN test_tasks
       THEN run_async_task(test_tasks[req.risk_type])
       ELSE BadRequest

\* BaseEventLoop._run_once, before the callbacks: the due timers move to
\* ready.  A timer scheduled earlier is due no later; equal deadlines leave
\* the heap in either order.  With nothing ready the loop sleeps until the
\* first timer is due.
BeginIteration ==
    /\ pc = "loop"
    /\ ntodo = 0
    /\ ~stopping
    /\ \E D \in SUBSET timers :
        /\ \A i \in D, j \in timers : j < i => j \in D
        /\ ready # <<>> \/ D # {}
        /\ \E order \in Perms(D) :
            ready' = ready \o [x \in 1..Len(order) |-> Callback("timer", order[x])]
        /\ timers' = timers \ D
    /\ ntodo' = Len(ready')
    /\ UNCHANGED <<req, pc, task, risk_level, main, child, child_result, outer,
                   finished, stopping, report, response>>

Running(cb) ==
    /\ pc = "loop"
    /\ ntodo > 0
    /\ Head(ready) = cb
    /\ ntodo' = ntodo - 1

\* First step of process_task: evaluate_risk, then execute_actions up to the
\* await of gather (which does not suspend on an empty list).
StartMain ==
    /\ Running(Callback("step", 0))
    /\ main = "created"
    /\ risk_level' = evaluate_risk(task)
    /\ LET n == Len(ActionsToExecute(task, risk_level'))
       IN  IF n = 0
           THEN /\ outer' = [state |-> "result", results |-> <<>>]
                /\ report' = Report(task, risk_level', <<>>)
                /\ main' = "returned"
                /\ ready' = CallSoon(Tail(ready), <<Callback("stop", 0)>>)
                /\ UNCHANGED <<child, child_result>>
           ELSE /\ outer' = PendingOuter
                /\ child' = [i \in 1..n |-> "created"]
                /\ child_result' = [i \in 1..n |-> NoResult]
                /\ main' = "awaiting"
                /\ ready' = CallSoon(Tail(ready), GatherSchedule(n))
                /\ UNCHANGED report
    /\ UNCHANGED <<req, pc, task, finished, timers, stopping, response>>

\* First step of execute_single_action: suspends at asyncio.sleep(0.1).
StartChild(i) ==
    /\ Running(Callback("step", i))
    /\ child[i] = "created"
    /\ child' = [child EXCEPT ![i] = "sleeping"]
    /\ timers' = timers \cup {i}
    /\ ready' = Tail(ready)
    /\ UNCHANGED <<req, pc, task, risk_level, main, child_result, outer,
                   finished, stopping, report, response>>

\* The sleep's timer handle: the sleep future gets its result, which
\* schedules the child's wakeup.
TimerCallback(i) ==
    /\ Running(Callback("timer", i))
    /\ ready' = CallSoon(Tail(ready), <<Callback("step", i)>>)
    /\ UNCHANGED <<req, pc, task, risk_level, main, child, child_result, outer,
                   finished, timers, stopping, report, response>>

\* Second step of execute_single_action: builds the result dict, or raises
\* in action.get; either way the child is done and gather's callback is
\* scheduled.
FinishChild(i) ==
    /\ Running(Callback("step", i))
    /\ child[i] = "sleeping"
    /\ IF Raises(Actions(task)[i])
       THEN /\ child' = [child EXCEPT ![i] = "raised"]
            /\ UNCHANGED child_result
       ELSE /\ child' = [child EXCEPT ![i] = "done"]
            /\ child_result' = [child_result EXCEPT ![i] = ActionResult(Actions(task)[i])]
    /\ ready' = CallSoon(Tail(ready), <<Callback("gather_done", i)>>)
    /\ UNCHANGED <<req, pc, task, risk_level, main, outer, finished, timers,
                   stopping, report, response>>

\* gather's _done_callback (return_exceptions=False).  finished lists the
\* children whose callback has run, in that order; gather's counter
\* nfinished is its length.
GatherDone(i) ==
    /\ Running(Callback("gather_done", i))
    /\ finished' = Append(finished, i)
    /\ IF outer.state # "pending"
       THEN /\ ready' = Tail(ready)
            /\ UNCHANGED outer
       ELSE IF child[i] = "raised"
       THEN /\ outer' = [state |-> "exception", results |-> <<>>]
            /\ ready' = CallSoon(Tail(ready), <<Callback("step", 0)>>)
       ELSE IF Len(finished') = Len(child)
       THEN /\ outer' = [state |-> "result", results |-> GatherResults(child_result, finished')]
            /\ ready' = CallSoon(Tail(ready), <<Callback("step", 0)>>)
       ELSE /\ ready' = Tail(ready)
            /\ UNCHANGED outer
    /\ UNCHANGED <<req, pc, task, risk_level, main, child, child_result, timers,
                   stopping, report, response>>

\* process_task resumes from `await asyncio.gather(...)`.
ResumeMain ==
    /\ Running(Callback("step", 0))
    /\ main = "awaiting"
    /\ IF outer.state = "exception"
       THEN /\ main' = "raised"
            /\ UNCHANGED report
       ELSE /\ main' = "returned"
            /\ report' = Report(task, risk_level, outer.results)
    /\ ready' = CallSoon(Tail(ready), <<Callback("stop", 0)>>)
    /\ UNCHANGED <<req, pc, task, risk_level, child, child_result, outer,
                   finished, timers, stopping, response>>

\* _run_until_complete_cb: loop.stop().
StopCallback ==
    /\ Running(Callback("stop", 0))
    /\ stopping' = TRUE
    /\ ready' = Tail(ready)
    /\ UNCHANGED <<req, pc, task, risk_level, main, child, child_result, outer,
                   finished, timers, report, response>>

\* run_forever leaves after the batch in which stop() ran; run_async_task
\* returns the main task's result or raises its exception, and closes the
\* loop (which drops what is still ready or scheduled); the route answers.
Respond ==
    /\ pc = "loop"
    /\ ntodo = 0
    /\ stopping
    /\ ready' = <<>>
    /\ timers' = {}
    /\ response' = IF main = "returned"
                   THEN [code |-> 200, status |-> report.status, report |-> report]
                   ELSE [code |-> 500, status |-> "failed", report |-> NoReport]
    /\ pc' = "responded"
    /\ UNCHANGED <<req, task, risk_level, main, child, child_result, outer,
                   finished, ntodo, stopping, report>>

Next ==
    \/ evaluate_task
    \/ test_task
    \/ BeginIteration
    \/ StartMain
    \/ \E i \in 1..Len(child) : StartChild(i)
    \/ \E i \in 1..Len(child) : TimerCallback(i)
    \/ \E i \in 1..Len(child) : FinishChild(i)
    \/ \E i \in 1..Len(child) : GatherDone(i)
    \/ ResumeMain
    \/ StopCallback
    \/ Respond

Spec ==
    Init /\ [][Next]_vars

(***************************************************************************)
(* evaluate_risk called on its own, on a wider range of tasks.             *)
(***************************************************************************)
InitRisk ==
    /\ req \in {[route |-> "evaluate", risk_type |-> "", task_data |-> t] : t \in RiskTasks}
    /\ pc = "call"
    /\ Quiet

evaluate_risk_call ==
    /\ pc = "call"
    /\ risk_level' = evaluate_risk(req.task_data)
    /\ pc' = "classified"
    /\ UNCHANGED <<req, task, main, child, child_result, outer, finished,
                   ready, timers, ntodo, stopping, report, response>>

NextRisk ==
    evaluate_risk_call

SpecRisk ==
    InitRisk /\ [][NextRisk]_vars

(***************************************************************************)
(* Vocabulary of the properties.                                           *)
(***************************************************************************)
TaskStr(t) ==
    Lower(Dumps(t))

\* How many keywords of the list occur in the serialized task.
KeywordsIn(keywords, t) ==
    Cardinality({k \in 1..Len(keywords) : Contains(keywords[k], TaskStr(t))})

\* The values of the task's fields, one by one (no serialization).
FieldTexts(t) ==
    {f.s : f \in {g \in {t.name, t.description} : g.has}}
    \cup UNION {IF a.is_dict
                THEN {f.s : f \in {g \in {a.type, a.data} : g.has}}
                ELSE {a.text}
                : a \in {Actions(t)[i] : i \in 1..Len(Actions(t))}}

\* How many DISTINCT keywords of the list occur in some field of the task.
DistinctKeywords(keywords, t) ==
    Cardinality({k \in 1..Len(keywords) :
                    \E s \in FieldTexts(t) : Contains(keywords[k], Lower(s))})

ChildFinished(i) ==
    child[i] \in {"done", "raised"}

Failing(t) ==
    {i \in 1..Len(Actions(t)) : Raises(Actions(t)[i])}

ProcessTaskOver ==
    main \in {"returned", "raised"}

(***************************************************************************)
(* C1 (isolation).  When exactly one action of the task raises,            *)
(* process_task still returns: execute_actions yields one result per       *)
(* action, the failing action's slot with status 'failure', every other    *)
(* slot with status 'success' and its own action's type, and the request   *)
(* is answered with the completed report.                                  *)
(***************************************************************************)
C1_Isolation ==
    (ProcessTaskOver /\ Cardinality(Failing(task)) = 1) =>
        /\ main = "returned"
        /\ outer.state = "result"
        /\ Len(outer.results) = Len(Actions(task))
        /\ \A i \in 1..Len(Actions(task)) :
            IF i \in Failing(task)
            THEN outer.results[i].status = "failure"
            ELSE /\ outer.results[i].status = "success"
                 /\ outer.results[i].action = ActionType(Actions(task)[i])

(***************************************************************************)
(* C2 (order and length).  Whatever the order in which the children        *)
(* finish, the sequence execute_actions returns has one result per action  *)
(* and results[i].action is actions[i].type ('unknown' without a type).    *)
(***************************************************************************)
C2_OrderPreserved ==
    outer.state = "result" =>
        /\ Len(outer.results) = Len(Actions(task))
        /\ \A i \in 1..Len(Actions(task)) :
            outer.results[i].action =
                (IF Actions(task)[i].type.has
                 THEN Actions(task)[i].type.s ELSE s_unknown)

\* Returned with the second action finished first and two different types.
C2_Witness ==
    /\ outer.state = "result"
    /\ Len(outer.results) >= 2
    /\ finished[1] = 2
    /\ outer.results[1].action # outer.results[2].action

(***************************************************************************)
(* C3.  A task whose serialized text contains a high-risk keyword is red,  *)
(* whatever else it contains and however many actions it has.              *)
(***************************************************************************)
C3_HighRiskIsRed ==
    (pc = "classified" /\ KeywordsIn(high_risk_keywords, req.task_data) >= 1)
        => risk_level = "red"

\* One high-risk keyword, nothing else, no action points: score exactly 10.
C3_Witness ==
    /\ pc = "classified"
    /\ KeywordsIn(high_risk_keywords, req.task_data) = 1
    /\ KeywordsIn(medium_risk_keywords, req.task_data) = 0
    /\ NumActions(req.task_data) <= 3
    /\ risk_level = "red"

(***************************************************************************)
(* C4, as claimed.  A task without high-risk keyword, with at least one    *)
(* medium-risk keyword and 4 or 5 actions is yellow.                       *)
(***************************************************************************)
C4_Original ==
    (/\ pc = "classified"
     /\ KeywordsIn(high_risk_keywords, req.task_data) = 0
     /\ KeywordsIn(medium_risk_keywords, req.task_data) >= 1
     /\ NumActions(req.task_data) > 3
     /\ NumActions(req.task_data) <= 5)
        => risk_level = "yellow"

(***************************************************************************)
(* C4, amended.  A task without high-risk keyword, with one or two         *)
(* distinct medium-risk keywords and 4 or 5 actions is yellow.             *)
(***************************************************************************)
C4_Amended ==
    (/\ pc = "classified"
     /\ KeywordsIn(high_risk_keywords, req.task_data) = 0
     /\ KeywordsIn(medium_risk_keywords, req.task_data) \in {1, 2}
     /\ NumActions(req.task_data) > 3
     /\ NumActions(req.task_data) <= 5)
        => risk_level = "yellow"

C4_Witness ==
    /\ pc = "classified"
    /\ KeywordsIn(high_risk_keywords, req.task_data) = 0
    /\ KeywordsIn(medium_risk_keywords, req.task_data) = 1
    /\ NumActions(req.task_data) = 4
    /\ risk_level = "yellow"

(***************************************************************************)
(* C5 (fan-in barrier).  Once process_task is over, with a report or with  *)
(* an error, every dispatched action has produced its outcome: none is     *)
(* still waiting to start or asleep.                                       *)
(***************************************************************************)
C5_Barrier ==
    ProcessTaskOver => \A i \in 1..Len(child) : ChildFinished(i)

(***************************************************************************)
(* C6 (the tier is advisory).  No action starts before the task is         *)
(* classified; whatever the tier, when process_task is over every action   *)
(* of the task has been started; and a report has status 'completed',      *)
(* actions_executed and as many results as the task has actions (0 when    *)
(* 'actions' is omitted), each result fixed by its action alone, so that   *)
(* only task_name and risk_level depend on anything else.                  *)
(***************************************************************************)
C6_RiskAdvisory ==
    /\ (\E i \in 1..Len(child) : child[i] # "created") => risk_level \in RiskTiers
    /\ ProcessTaskOver =>
        /\ Len(child) = Len(Actions(task))
        /\ \A i \in 1..Len(child) : child[i] # "created"
    /\ main = "returned" =>
        /\ report.status = "completed"
        /\ report.actions_executed = NumActions(task)
        /\ Len(report.results) = NumActions(task)
        /\ \A i \in 1..NumActions(task) :
            report.results[i] = ActionResult(Actions(task)[i])
        /\ report.risk_level = risk_level
        /\ report.task_name = TaskName(task)

\* A red task whose two or more actions all ran into the report.
C6_Witness ==
    /\ main = "returned"
    /\ risk_level = "red"
    /\ report.actions_executed >= 2
    /\ \A i \in 1..Len(report.results) : report.results[i].status = "success"

(***************************************************************************)
(* C7.  Between them the canned tasks of test_task exercise every tier:    *)
(* once a canned task has been answered, for each of green, yellow and red *)
(* some canned task is classified (and reported) with that tier.           *)
(***************************************************************************)
C7_EveryTierExercised ==
    (pc = "responded" /\ req.route = "test" /\ response.code = 200) =>
        /\ response.report.risk_level = evaluate_risk(test_tasks[req.risk_type])
        /\ \A tier \in RiskTiers :
            \E r \in DOMAIN test_tasks : evaluate_risk(test_tasks[r]) = tier

(***************************************************************************)
(* C8.  The tier is the threshold mapping of 10*h + 3*m + b, h and m the   *)
(* numbers of distinct high- and medium-risk keywords that occur in the    *)
(* task's fields and b the action-count points; a keyword counts once      *)
(* however often and in however many fields it occurs.                     *)
(***************************************************************************)
C8_ScoreFormula ==
    pc = "classified" =>
        LET t == req.task_data
            h == DistinctKeywords(high_risk_keywords, t)
            m == DistinctKeywords(medium_risk_keywords, t)
            n == IF t.has_actions THEN Len(t.actions) ELSE 0
            b == IF n > 5 THEN 5 ELSE IF n > 3 THEN 2 ELSE 0
            score == 10 * h + 3 * m + b
        IN  risk_level = (IF score >= 10 THEN "red"
                          ELSE IF score >= 5 THEN "yellow" ELSE "green")

\* 'update' occurs four times or more, nothing else does: still green.
C8_Witness ==
    /\ pc = "classified"
    /\ Occurrences(kw_update, TaskStr(req.task_data)) >= 4
    /\ DistinctKeywords(high_risk_keywords, req.task_data) = 0
    /\ DistinctKeywords(medium_risk_keywords, req.task_data) = 1
    /\ risk_level = "green"

(***************************************************************************)
(* C9 (concurrent dispatch).  The step in which the first action finishes  *)
(* starts from a state in which every action of the list is in flight      *)
(* (started and asleep): no start waits for another action's completion.   *)
(***************************************************************************)
C9_ConcurrentDispatch ==
    [][((\A i \in 1..Len(child) : ~ChildFinished(i))
        /\ (\E i \in 1..Len(child') : child'[i] \in {"done", "raised"}))
       => (\A i \in 1..Len(child) : child[i] = "sleeping")]_vars

C9_Witness ==
    /\ Len(child) >= 2
    /\ \A i \in 1..Len(child) : child[i] = "sleeping"
    /\ timers = 1..Len(child)

(***************************************************************************)
(* C10 (termination).  The loop never stops with nothing to run while the  *)
(* request is unanswered, and a request whose task was handed to           *)
(* process_task is answered only once process_task has returned a report.  *)
(***************************************************************************)
C10_Termination ==
    /\ pc = "loop" => (ntodo > 0 \/ stopping \/ ready # <<>> \/ timers # {})
    /\ (pc = "responded" /\ main # "none") =>
            (main = "returned" /\ report.status = "completed")
====
